---------------------------- MODULE Spec2Model ----------------------------
(***************************************************************************)
(* Model of qq_acp_fastapi_server.py: the ACP webhook handler              *)
(* handle_service_request and its payment check verify_payment.            *)
(*                                                                         *)
(* The server is one asyncio event loop (uvicorn.run, one process), so a   *)
(* handler runs without interruption between two awaits.  The only await   *)
(* at which another request can be scheduled is the outbound GET of        *)
(* verify_payment, hence two steps per request: Receive (up to the GET     *)
(* being issued) and GetCompletes (from the GET's outcome to the response).*)
(*                                                                         *)
(* Percentages are kept in hundredths of a percent (0.3 is 30, 1.2 is 120, *)
(* 2.0 is 200), which is exact for every two-decimal figure of the code.   *)
(***************************************************************************)
EXTENDS Integers, Sequences, FiniteSets, TLC

VARIABLES
    clients,    \* connections on which the marketplace sends requests
    offered,    \* the "parameters" dicts the buyers send
    pc,         \* per connection: "idle", "await_get" or "done"
    request,    \* per connection: the JobRequest being handled
    calls,      \* per connection: the outbound HTTP calls issued so far
    http,       \* per connection: the outcome of its outbound GET
    is_paid,    \* per connection: how verify_payment ended
    response    \* per connection: how handle_service_request ended

vars == <<clients, offered, pc, request, calls, http, is_paid, response>>

---------------------------------------------------------------------------
\* Bounds of the model.

\* Connections handled concurrently in specification Spec.
NumRequests == 2

\* Connections in specification SpecPools (every token, one request at a time).
PoolClients == 1

Max(a, b) == IF a >= b THEN a ELSE b

Connections == 1 .. Max(NumRequests, PoolClients)

---------------------------------------------------------------------------
\* Program constants.

ACP_API_URL == "https://api.virtuals.io/v1/jobs"

AGENT_SECRET_KEY == "acp-f7831137941a13fbd918"

\* timeout=5.0 of client.get, in seconds.
GetTimeout == 5

HTTP_OK == 200

HTTP_PAYMENT_REQUIRED == 402

\* What FastAPI answers when an exception other than HTTPException leaves
\* the handler.
HTTP_INTERNAL_ERROR == 500

PaidStatuses == {"PAID", "TRANSACTION", "COMPLETED"}

KnownServices == {"quick-scan", "slippage-calculator", "full-deep-dive"}

DefaultTokenAddress == "0x0000"

---------------------------------------------------------------------------
\* Inputs.

JobIds == {"job-1", "job-2"}

BuyerAddresses == {"0xBUYER"}

ServiceIds == KnownServices \cup {"rug-check"}

EmptyParameters == [k \in {} |-> ""]

\* JobRequest(BaseModel): jobId, buyerAddress, serviceId, parameters.
JobRequest(parameters) ==
    [jobId : JobIds, buyerAddress : BuyerAddresses,
     serviceId : ServiceIds, parameters : parameters]

NoRequest == [jobId |-> "", buyerAddress |-> "", serviceId |-> "",
              parameters |-> EmptyParameters]

\* The bodies the ACP API may send: a JSON object with or without a
\* "status" key, a JSON value that is no object, or bytes that are no JSON.
JsonObject(s) == [json |-> "object", has_status |-> TRUE, status |-> s]

JsonNoStatus == [json |-> "object", has_status |-> FALSE, status |-> ""]

JsonArray == [json |-> "array", has_status |-> FALSE, status |-> ""]

Malformed == [json |-> "malformed", has_status |-> FALSE, status |-> ""]

HttpResponse(code, body) ==
    [kind |-> "response", status_code |-> code, body |-> body]

\* Every way the awaited client.get can end.
HttpOutcomes ==
    {[kind |-> "network_error", status_code |-> 0, body |-> Malformed],
     [kind |-> "timeout", status_code |-> 0, body |-> Malformed]}
    \cup {HttpResponse(HTTP_OK, JsonObject(s)) :
            s \in PaidStatuses \cup {"PENDING"}}
    \cup {HttpResponse(HTTP_OK, b) : b \in {JsonNoStatus, JsonArray, Malformed}}
    \cup {HttpResponse(404, JsonObject("PAID")),
          HttpResponse(HTTP_INTERNAL_ERROR, Malformed)}

NoOutcome == [kind |-> "none", status_code |-> 0, body |-> Malformed]

---------------------------------------------------------------------------
\* The price-pair source (DEXScreener), which the handler does not call
\* (line 96: "TODO: DEXScreener API").  It is the world the slippage figures
\* are about: the pairs it lists for each token.

TargetChain == "base"

Pair(addr, chain, liq) ==
    [pairAddress |-> addr, chainId |-> chain, liquidity |-> liq]

TokenAddresses == {"0xOTHER", "0xDRY", "0xSINGLE", "0xMULTI", "0xDEEP"}

DexPairs(token) ==
    CASE token = "0xOTHER"  -> <<Pair("e1", "ethereum", 500)>>
      [] token = "0xDRY"    -> <<Pair("d1", TargetChain, 0)>>
      [] token = "0xSINGLE" -> <<Pair("s1", TargetChain, 10000)>>
      [] token = "0xMULTI"  -> <<Pair("m1", TargetChain, 50),
                                 Pair("m2", TargetChain, 200),
                                 Pair("m3", "ethereum", 900),
                                 Pair("m4", TargetChain, 75),
                                 Pair("m5", TargetChain, 200)>>
      [] token = "0xDEEP"   -> <<Pair("p1", TargetChain, 4000000)>>
      [] OTHER              -> <<>>

\* The parameters sent in specification SpecPools: every token, and none.
AllParameters ==
    {EmptyParameters} \cup {[tokenAddress |-> t] : t \in TokenAddresses}

\* The parameters sent in specification Spec.
ConcurrentParameters == {[tokenAddress |-> "0xSINGLE"]}

---------------------------------------------------------------------------
\* verify_payment

\* The call verify_payment issues: client.get(f"{ACP_API_URL}/{job_id}",
\* headers={"Authorization": f"Bearer {AGENT_SECRET_KEY}"}, timeout=5.0).
GetCall(job_id) ==
    [method |-> "GET", url |-> <<ACP_API_URL, job_id>>,
     authorization |-> <<"Bearer", AGENT_SECRET_KEY>>, timeout |-> GetTimeout]

Returned(v) == [kind |-> "return", value |-> v]

Raised == [kind |-> "raise", value |-> FALSE]

NotCalled == [kind |-> "none", value |-> FALSE]

\* The try block of verify_payment (lines 31-45) for GET outcome o.
\* client.get raises on a network error or a timeout; response.json() raises
\* on a body that is no JSON; job_data.get raises when the JSON is no object;
\* a missing "status" gives None, which is in no list of strings.
verify_payment_try(o) ==
    IF o.kind # "response" THEN Raised
    ELSE IF o.status_code = HTTP_OK
         THEN IF o.body.json = "malformed" THEN Raised
              ELSE IF o.body.json # "object" THEN Raised
              ELSE Returned(o.body.has_status /\ o.body.status \in PaidStatuses)
         ELSE Returned(FALSE)

\* Mutant: verify_payment without its "except Exception" clause.
verify_payment_no_except(o) == verify_payment_try(o)

\* verify_payment (lines 26-49): the try block, and False on any exception.
verify_payment(o) ==
    IF verify_payment_try(o).kind = "raise" THEN Returned(FALSE)
    ELSE verify_payment_try(o)

---------------------------------------------------------------------------
\* handle_service_request

\* datetime.utcnow().isoformat(): a timestamp, kept opaque.
UtcNow == "utcnow"

\* request.parameters.get("tokenAddress", "0x0000")
TokenAddressOf(parameters) ==
    IF "tokenAddress" \in DOMAIN parameters
    THEN parameters.tokenAddress
    ELSE DefaultTokenAddress

\* Lines 82-88.
QuickScanResult ==
    [trust_score |-> 85, is_honeypot |-> FALSE, is_blacklisted |-> FALSE,
     recommendation |-> "PROCEED", processed_at |-> UtcNow]

\* Mutant: the 1,000-unit figure no larger than the 100-unit one.
SlippageResultFlat ==
    [slippage_100 |-> 30, slippage_1000 |-> 30, slippage_10000 |-> 120,
     recommendation |-> "HIGH_LIQUIDITY", processed_at |-> UtcNow]

\* Lines 97-103: 0.3, 0.5 and 1.2 percent.
SlippageResult ==
    [slippage_100 |-> 30, slippage_1000 |-> 50, slippage_10000 |-> 120,
     recommendation |-> "HIGH_LIQUIDITY", processed_at |-> UtcNow]

\* Lines 112-123.
DeepDiveResult ==
    [security |-> [trust_score |-> 85, risks |-> <<>>],
     liquidity |-> [slippage_100 |-> 30, is_liquid |-> TRUE],
     recommendation |-> "BUY", processed_at |-> UtcNow]

ReturnBody(b) == [kind |-> "return", status_code |-> HTTP_OK, body |-> b]

RaiseHttp(code, detail) ==
    [kind |-> "raise", status_code |-> code, body |-> [detail |-> detail]]

NoResponse == [kind |-> "none", status_code |-> 0, body |-> [detail |-> ""]]

\* Lines 130-137 and 143.
SuccessResponse(req, result) ==
    ReturnBody([status |-> "success", jobId |-> req.jobId,
                deliverable |-> [type |-> "json", value |-> result]])

\* Lines 149-153; str(e) of ValueError(f"Unknown service: {serviceId}").
ErrorResponse(req) ==
    ReturnBody([status |-> "error", jobId |-> req.jobId,
                message |-> <<"Unknown service: ", req.serviceId>>])

\* Mutant: the ValueError of line 127 leaves the handler uncaught.
DispatchUncaught(req) ==
    IF req.serviceId = "quick-scan"
    THEN SuccessResponse(req, QuickScanResult)
    ELSE IF req.serviceId = "slippage-calculator"
    THEN SuccessResponse(req, SlippageResult)
    ELSE IF req.serviceId = "full-deep-dive"
    THEN SuccessResponse(req, DeepDiveResult)
    ELSE RaiseHttp(HTTP_INTERNAL_ERROR, "Internal Server Error")

\* Lines 73-153: the try block with its dispatch on serviceId, and the
\* except clause that turns the ValueError into the error payload.  The
\* tokenAddress read at lines 79, 94 and 109 is bound and never used.
Dispatch(req) ==
    IF req.serviceId = "quick-scan"
    THEN SuccessResponse(req, QuickScanResult)
    ELSE IF req.serviceId = "slippage-calculator"
    THEN SuccessResponse(req, SlippageResult)
    ELSE IF req.serviceId = "full-deep-dive"
    THEN SuccessResponse(req, DeepDiveResult)
    ELSE ErrorResponse(req)

\* Mutant: the handler dispatches whatever verify_payment returned.
AfterPaymentUngated(req, paid) ==
    IF paid.kind = "raise"
    THEN RaiseHttp(HTTP_INTERNAL_ERROR, "Internal Server Error")
    ELSE Dispatch(req)

\* Lines 64-153 after the await: an exception of verify_payment would leave
\* the handler (the await is outside the try); "if not is_paid" raises
\* HTTPException 402; otherwise the dispatch.
AfterPayment(req, paid) ==
    IF paid.kind = "raise"
    THEN RaiseHttp(HTTP_INTERNAL_ERROR, "Internal Server Error")
    ELSE IF ~paid.value
    THEN RaiseHttp(HTTP_PAYMENT_REQUIRED, "Payment not verified in escrow")
    ELSE Dispatch(req)

\* Mutant: the request kept in a module-level variable, which the latest
\* arrival overwrites.
RequestShared(c) ==
    request[CHOOSE d \in clients :
              /\ pc[d] # "idle"
              /\ \A e \in clients : pc[e] # "idle" => e <= d]

\* Line 52: the handler's own parameter "request".
RequestOf(c) == request[c]

---------------------------------------------------------------------------
\* The state machine.

TypeOK ==
    /\ clients \subseteq Connections
    /\ offered \subseteq AllParameters
    /\ pc \in [Connections -> {"idle", "await_get", "done"}]
    /\ \A c \in Connections :
         /\ request[c] \in JobRequest(offered) \cup {NoRequest}
         /\ http[c] \in HttpOutcomes \cup {NoOutcome}
         /\ is_paid[c] \in {NotCalled, Raised, Returned(TRUE), Returned(FALSE)}

InitHandlers ==
    /\ pc = [c \in Connections |-> "idle"]
    /\ request = [c \in Connections |-> NoRequest]
    /\ calls = [c \in Connections |-> <<>>]
    /\ http = [c \in Connections |-> NoOutcome]
    /\ is_paid = [c \in Connections |-> NotCalled]
    /\ response = [c \in Connections |-> NoResponse]

Init ==
    /\ clients = 1 .. NumRequests
    /\ offered = ConcurrentParameters
    /\ InitHandlers

InitPools ==
    /\ clients = 1 .. PoolClients
    /\ offered = AllParameters
    /\ InitHandlers

\* Lines 52-64 and 30-37: a request arrives, the handler calls
\* verify_payment, which issues the GET and suspends.
Receive(c) ==
    /\ pc[c] = "idle"
    /\ \E req \in JobRequest(offered) :
         /\ request' = [request EXCEPT ![c] = req]
         /\ calls' = [calls EXCEPT ![c] = Append(@, GetCall(req.jobId))]
    /\ pc' = [pc EXCEPT ![c] = "await_get"]
    /\ UNCHANGED <<clients, offered, http, is_paid, response>>

\* Mutant: a failed GET is issued once more.
GetCompletedRetry(c, o) ==
    IF verify_payment_try(o).kind = "raise" /\ Len(calls[c]) < 2
    THEN /\ calls' = [calls EXCEPT ![c] = Append(@, GetCall(RequestOf(c).jobId))]
         /\ UNCHANGED <<clients, offered, pc, request, http, is_paid, response>>
    ELSE /\ http' = [http EXCEPT ![c] = o]
         /\ is_paid' = [is_paid EXCEPT ![c] = verify_payment(o)]
         /\ response' = [response EXCEPT ![c] =
                           AfterPayment(RequestOf(c), verify_payment(o))]
         /\ pc' = [pc EXCEPT ![c] = "done"]
         /\ UNCHANGED <<clients, offered, request, calls>>

\* Lines 33-49 and 64-153: the GET ends with outcome o, verify_payment
\* returns, and the handler runs to its response without another await.
GetCompleted(c, o) ==
    /\ http' = [http EXCEPT ![c] = o]
    /\ is_paid' = [is_paid EXCEPT ![c] = verify_payment(o)]
    /\ response' = [response EXCEPT ![c] =
                      AfterPayment(RequestOf(c), verify_payment(o))]
    /\ pc' = [pc EXCEPT ![c] = "done"]
    /\ UNCHANGED <<clients, offered, request, calls>>

GetCompletes(c) ==
    /\ pc[c] = "await_get"
    /\ \E o \in HttpOutcomes : GetCompleted(c, o)

Next ==
    \/ \E c \in clients : Receive(c)
    \/ \E c \in clients : GetCompletes(c)

Spec == Init /\ [][Next]_vars

SpecPools == InitPools /\ [][Next]_vars

---------------------------------------------------------------------------
\* Vocabulary of the properties.

Done(c) == pc[c] = "done"

PaymentRequired ==
    RaiseHttp(HTTP_PAYMENT_REQUIRED, "Payment not verified in escrow")

IsSuccess(c) ==
    /\ response[c].kind = "return"
    /\ response[c].body.status = "success"

IsErrorPayload(c) ==
    /\ response[c].kind = "return"
    /\ response[c].body.status = "error"

\* The GET completed with 200 and a job whose status is a paid one.
PaymentConfirmed(o) ==
    /\ o.kind = "response"
    /\ o.status_code = 200
    /\ o.body.json = "object"
    /\ o.body.has_status
    /\ o.body.status \in {"PAID", "TRANSACTION", "COMPLETED"}

\* The one attempt failed: exception, timeout or non-200 response.
GetFailed(o) ==
    \/ o.kind \in {"network_error", "timeout"}
    \/ o.kind = "response" /\ o.status_code # 200

\* A slippage result was returned to connection c.
IsSlippageResult(c) ==
    /\ IsSuccess(c)
    /\ request[c].serviceId = "slippage-calculator"

SlippageValue(c) == response[c].body.deliverable.value

TokenOf(c) == TokenAddressOf(request[c].parameters)

\* The estimation the slippage figures are specified by: the pairs on the
\* target chain, the first pair of maximum liquidity among them, and the
\* price impact of a trade of size T against half of its liquidity L plus
\* the 0.3 % fee, rounded to two decimals.
IsOnTargetChain(p) == p.chainId = TargetChain

ChainPairs(token) == SelectSeq(DexPairs(token), IsOnTargetChain)

BestPool(token) ==
    LET ps == ChainPairs(token)
        i  == CHOOSE k \in 1 .. Len(ps) :
                /\ \A j \in 1 .. Len(ps) : ps[j].liquidity <= ps[k].liquidity
                /\ \A j \in 1 .. (k - 1) : ps[j].liquidity < ps[k].liquidity
    IN ps[i]

HasLiquidity(token) ==
    /\ Len(ChainPairs(token)) > 0
    /\ BestPool(token).liquidity > 0

\* n / d rounded to the nearest integer, halves to the even one.
RoundDiv(n, d) ==
    LET q == n \div d
        r == n % d
    IN IF 2 * r < d THEN q
       ELSE IF 2 * r > d THEN q + 1
       ELSE IF q % 2 = 0 THEN q ELSE q + 1

\* round((T / (L/2 + T)) * 100 + 0.3, 2), in hundredths of a percent.
FormulaSlippage(L, T) == RoundDiv(20000 * T, L + 2 * T) + 30

---------------------------------------------------------------------------
\* C1: a success response with a deliverable is returned only when
\* verify_payment returned true for that request, and whenever
\* verify_payment returned false the request ends with HTTP 402 and neither
\* a success nor an error payload, whatever the serviceId.
PaymentGatesDeliverable ==
    \A c \in Connections :
      /\ response[c].kind = "return" => is_paid[c] = Returned(TRUE)
      /\ (Done(c) /\ is_paid[c] = Returned(FALSE)) => response[c] = PaymentRequired

\* An unpaid request for a known service ended with 402 while a paid one
\* got its deliverable.
PaymentGateWitness ==
    \E c, d \in Connections :
      /\ Done(c) /\ is_paid[c] = Returned(FALSE)
      /\ request[c].serviceId \in KnownServices
      /\ response[c] = PaymentRequired
      /\ Done(d) /\ is_paid[d] = Returned(TRUE) /\ IsSuccess(d)

\* C2: every slippage result recommends HIGH_RISK when slippage_10000 > 2.0,
\* MODERATE_RISK when slippage_1000 > 1.0 and slippage_10000 <= 2.0, PROCEED
\* when slippage_1000 <= 1.0 and slippage_10000 <= 2.0, and nothing else.
RecommendationByThresholds ==
    \A c \in Connections :
      IsSlippageResult(c) =>
        LET v == SlippageValue(c)
        IN /\ v.slippage_10000 > 200 => v.recommendation = "HIGH_RISK"
           /\ (v.slippage_1000 > 100 /\ v.slippage_10000 <= 200)
                => v.recommendation = "MODERATE_RISK"
           /\ (v.slippage_1000 <= 100 /\ v.slippage_10000 <= 200)
                => v.recommendation = "PROCEED"
           /\ v.recommendation \in {"HIGH_RISK", "MODERATE_RISK", "PROCEED"}

\* C3: for a token with zero pairs, no pair on the target chain, or a best
\* pool of liquidity zero, no populated slippage result is returned and
\* nothing is raised.
NoResultWithoutLiquidity ==
    \A c \in Connections :
      (/\ Done(c)
       /\ is_paid[c] = Returned(TRUE)
       /\ request[c].serviceId = "slippage-calculator"
       /\ ~HasLiquidity(TokenOf(c)))
        => /\ response[c].kind = "return"
           /\ ~IsSlippageResult(c)

\* C4: for a token whose only pool on the target chain has liquidity L > 0,
\* the slippage at each trade size T in {100, 1000, 10000} is
\* round((T / (L/2 + T)) * 100 + 0.3, 2).
SlippageFollowsFormula ==
    \A c \in Connections :
      (/\ IsSlippageResult(c)
       /\ Len(ChainPairs(TokenOf(c))) = 1
       /\ HasLiquidity(TokenOf(c)))
        => LET L == BestPool(TokenOf(c)).liquidity
               v == SlippageValue(c)
           IN /\ v.slippage_100 = FormulaSlippage(L, 100)
              /\ v.slippage_1000 = FormulaSlippage(L, 1000)
              /\ v.slippage_10000 = FormulaSlippage(L, 10000)

\* C5: in every slippage result returned, slippage_100 < slippage_1000 <
\* slippage_10000, whatever the liquidity of the token's pools.
SlippageIncreasing ==
    \A c \in Connections :
      IsSlippageResult(c) =>
        /\ SlippageValue(c).slippage_100 < SlippageValue(c).slippage_1000
        /\ SlippageValue(c).slippage_1000 < SlippageValue(c).slippage_10000

\* A slippage result was returned for a token whose best pool has positive
\* liquidity.
SlippageIncreasingWitness ==
    \E c \in Connections :
      /\ IsSlippageResult(c)
      /\ HasLiquidity(TokenOf(c))
      /\ BestPool(TokenOf(c)).liquidity = 200

\* C6: the slippage result reports as best_pool the first pair of maximum
\* liquidity among the pairs on the target chain, and as liquidity_usd that
\* pair's liquidity: for pools of 50, 200 and 75 the pool of 200.
BestPoolReported ==
    \A c \in Connections :
      (IsSlippageResult(c) /\ HasLiquidity(TokenOf(c)))
        => LET v == SlippageValue(c)
           IN /\ "best_pool" \in DOMAIN v
              /\ "liquidity_usd" \in DOMAIN v
              /\ v.best_pool = BestPool(TokenOf(c)).pairAddress
              /\ v.liquidity_usd = BestPool(TokenOf(c)).liquidity

\* C7: each invocation issues at most one outbound HTTP call, the GET of
\* verify_payment, and when that attempt fails (exception, timeout or
\* non-200) the request ends with 402 after that single call.
NoRetry ==
    \A c \in Connections :
      /\ Len(calls[c]) <= 1
      /\ \A i \in 1 .. Len(calls[c]) : calls[c][i] = GetCall(request[c].jobId)
      /\ (Done(c) /\ GetFailed(http[c]))
           => /\ Len(calls[c]) = 1
              /\ response[c] = PaymentRequired

\* A request whose GET timed out and one whose GET got a non-200 answer
\* both ended with 402 after one call.
NoRetryWitness ==
    \E c, d \in Connections :
      /\ Done(c) /\ http[c].kind = "timeout"
      /\ Len(calls[c]) = 1 /\ response[c] = PaymentRequired
      /\ Done(d) /\ http[d].kind = "response" /\ http[d].status_code # 200
      /\ Len(calls[d]) = 1 /\ response[d] = PaymentRequired

\* C8: under every interleaving at the await, a request's outcome and the
\* jobId it echoes are determined by its own jobId, serviceId and the
\* payment status returned to its own GET: the echoed jobId is its own, 402
\* is returned exactly when its own payment is unconfirmed, and two requests
\* that agree on the three get the same response.
RequestsIndependent ==
    \A c \in Connections :
      Done(c) =>
        /\ response[c].kind = "return" => response[c].body.jobId = request[c].jobId
        /\ response[c] = PaymentRequired <=> ~PaymentConfirmed(http[c])
        /\ \A d \in Connections :
             (/\ Done(d)
              /\ request[d].jobId = request[c].jobId
              /\ request[d].serviceId = request[c].serviceId
              /\ PaymentConfirmed(http[d]) = PaymentConfirmed(http[c]))
               => response[d] = response[c]

\* A paid request got its own result while a request for another job, which
\* arrived later on a higher connection, was still awaiting its GET.
RequestsIndependentWitness ==
    \E c, d \in Connections :
      /\ c < d
      /\ Done(c) /\ IsSuccess(c)
      /\ pc[d] = "await_get"
      /\ request[d].jobId # request[c].jobId
      /\ request[d].serviceId # request[c].serviceId

Ends402(c) ==
    /\ response[c] = PaymentRequired
    /\ is_paid[c] = Returned(FALSE)

EndsSuccess(c) ==
    /\ IsSuccess(c)
    /\ DOMAIN response[c].body = {"status", "jobId", "deliverable"}
    /\ is_paid[c] = Returned(TRUE)
    /\ request[c].serviceId \in KnownServices

EndsError(c) ==
    /\ IsErrorPayload(c)
    /\ DOMAIN response[c].body = {"status", "jobId", "message"}
    /\ response[c].body.jobId = request[c].jobId
    /\ is_paid[c] = Returned(TRUE)
    /\ request[c].serviceId \notin KnownServices

ThreeOutcomes ==
    \A c \in Connections :
      Done(c) =>
        /\ Ends402(c) \/ EndsSuccess(c) \/ EndsError(c)
        /\ ~(Ends402(c) /\ EndsSuccess(c))
        /\ ~(Ends402(c) /\ EndsError(c))
        /\ ~(EndsSuccess(c) /\ EndsError(c))

\* A paid request for an unknown service got the error payload, and an
\* unpaid one for the same service got 402.
ThreeOutcomesWitness ==
    \E c, d \in Connections :
      /\ Done(c) /\ EndsError(c)
      /\ Done(d) /\ Ends402(d) /\ request[d].serviceId = request[c].serviceId

=============================================================================
